---- MODULE Spec2Model ----
(***************************************************************************)
(* Model of the yt-dlp GUI front-end (src/ytdl_gui.py): the download       *)
(* orchestration in DownloadWorker (run / _run_all / _make_opts / _hook),  *)
(* the MainWindow handlers that start a run and receive its signals, and   *)
(* the pure helpers they call; and the worker of the older variant         *)
(* (src/ytdl_gui_cli_old.py), as a function of the engine's behaviour.     *)
(*                                                                         *)
(* Strings that the code inspects character by character (URLs, the        *)
(* output directory) are sequences of one-character strings.  Optional     *)
(* strings use the value None.  The Qt event loop of the main thread is    *)
(* the FIFO mainQueue of queued slot invocations.                          *)
(***************************************************************************)
EXTENDS Integers, Sequences, FiniteSets, TLC

\* ------------------------------------------------------------------------
\* Bounds of the model
\* ------------------------------------------------------------------------

\* workers (runs) that may be created in one behaviour
MaxRuns == 2

\* callbacks (progress hook or logger) the engine makes in one run
MaxCallbacks == 1

\* callbacks the engine makes in one run of the callback environment
MaxOrderedCallbacks == 2

\* lines of a batch file whose URL list is computed on its own
MaxLines == 3

\* ------------------------------------------------------------------------
\* Characters and strings
\* ------------------------------------------------------------------------

None == "None"

UpperAlpha ==
    <<"A","B","C","D","E","F","G","H","I","J","K","L","M",
      "N","O","P","Q","R","S","T","U","V","W","X","Y","Z">>

LowerAlpha ==
    <<"a","b","c","d","e","f","g","h","i","j","k","l","m",
      "n","o","p","q","r","s","t","u","v","w","x","y","z">>

DigitChars == {"0","1","2","3","4","5","6","7","8","9"}

WhiteSpace == {" "}

UpperChars == {UpperAlpha[i] : i \in 1..26}

LowerChars == {LowerAlpha[i] : i \in 1..26}

LowerOf == [c \in UpperChars |-> LowerAlpha[CHOOSE i \in 1..26 : UpperAlpha[i] = c]]

\* re.IGNORECASE: compare characters after folding to lower case
Lower(c) == IF c \in UpperChars THEN LowerOf[c] ELSE c

\* the character class [A-Za-z0-9_-]
IdChars == UpperChars \cup LowerChars \cup DigitChars \cup {"_", "-"}

IsIdChar(c) == c \in IdChars

\* str.strip()
RECURSIVE LStrip(_)
LStrip(s) ==
    IF s # <<>> /\ Head(s) \in WhiteSpace THEN LStrip(Tail(s)) ELSE s

RECURSIVE RStrip(_)
RStrip(s) ==
    IF s # <<>> /\ s[Len(s)] \in WhiteSpace
    THEN RStrip(SubSeq(s, 1, Len(s) - 1))
    ELSE s

Strip(s) == RStrip(LStrip(s))

\* the literal lit matches s at offset i (1-based), ignoring case
MatchAtCI(lit, s, i) ==
    /\ i + Len(lit) - 1 <= Len(s)
    /\ \A k \in 1..Len(lit) : Lower(s[i + k - 1]) = Lower(lit[k])

\* re.search of a literal, ignoring case
SearchCI(lit, s) == \E i \in 1..Len(s) : MatchAtCI(lit, s, i)

\* length of the longest run of [A-Za-z0-9_-] in s starting at offset i
RECURSIVE IdRun(_, _)
IdRun(s, i) ==
    IF i <= Len(s) /\ IsIdChar(s[i]) THEN 1 + IdRun(s, i + 1) ELSE 0

HttpLit == <<"h","t","t","p",":","/","/">>
HttpsLit == <<"h","t","t","p","s",":","/","/">>
YoutubeComLit == <<"y","o","u","t","u","b","e",".","c","o","m">>
YoutuBeLit == <<"y","o","u","t","u",".","b","e">>
ShortsLit == YoutubeComLit \o <<"/","s","h","o","r","t","s","/">>
YoutuBeSlashLit == YoutuBeLit \o <<"/">>
WatchPrefix ==
    HttpsLit \o <<"w","w","w",".">> \o YoutubeComLit
        \o <<"/","w","a","t","c","h","?","v","=">>

\* re.search(lit + r"([A-Za-z0-9_-]{6,})", s, re.IGNORECASE): the offsets at
\* which the literal matches and is followed by at least 6 id characters
IdMatches(lit, s) ==
    {i \in 1..Len(s) : MatchAtCI(lit, s, i) /\ IdRun(s, i + Len(lit)) >= 6}

\* the group matched with the lazy quantifier {6,}?: the first 6 characters
IdGroup_lazy(lit, s) ==
    LET i == CHOOSE j \in IdMatches(lit, s) :
                 \A k \in IdMatches(lit, s) : j <= k
        b == i + Len(lit)
    IN  SubSeq(s, b, b + 5)

\* m.group(1) of the leftmost such match (the quantifier is greedy)
IdGroup(lit, s) ==
    LET i == CHOOSE j \in IdMatches(lit, s) :
                 \A k \in IdMatches(lit, s) : j <= k
        b == i + Len(lit)
    IN  SubSeq(s, b, b + IdRun(s, b) - 1)

\* the scheme test done with re.search and no ^ anchor
has_scheme_anywhere(url) == SearchCI(HttpLit, url) \/ SearchCI(HttpsLit, url)

\* line 194: re.match(r"^https?://", url, re.IGNORECASE)
has_scheme(url) == MatchAtCI(HttpLit, url, 1) \/ MatchAtCI(HttpsLit, url, 1)

\* line 196: re.search(r"(youtube\.com|youtu\.be)", url, re.IGNORECASE)
has_domain(url) == SearchCI(YoutubeComLit, url) \/ SearchCI(YoutuBeLit, url)

normalize_youtube_url(raw) ==
    LET url == Strip(raw)
    IN  IF url = <<>> THEN <<>>
        ELSE IF ~has_scheme(url)
        THEN <<>>
        ELSE IF ~has_domain(url)
        THEN <<>>
        ELSE IF IdMatches(ShortsLit, url) # {}
        THEN WatchPrefix \o IdGroup(ShortsLit, url)
        ELSE IF IdMatches(YoutuBeSlashLit, url) # {}
        THEN WatchPrefix \o IdGroup(YoutuBeSlashLit, url)
        ELSE url

\* ------------------------------------------------------------------------
\* Host environment helpers
\* ------------------------------------------------------------------------

Platforms == {"win", "linux"}

Browsers == {"chrome", "edge", "firefox"}

\* pick_cookie_browser trying firefox first
WinCandidates_firefox_first == <<"firefox", "edge", "chrome">>

\* pick_cookie_browser, line 247: the browsers probed on Windows, in order
WinCandidates == <<"chrome", "edge", "firefox">>

\* profiles: the browsers whose profile directory exists on the host
browser_profile_exists(browser, profiles) ==
    IF browser = "firefox" THEN "firefox" \in profiles
    ELSE IF browser = "chrome" THEN "chrome" \in profiles
    ELSE IF browser = "edge" THEN "edge" \in profiles
    ELSE FALSE

pick_cookie_browser(platform, profiles) ==
    IF platform = "win"
    THEN IF \E i \in 1..Len(WinCandidates) :
                browser_profile_exists(WinCandidates[i], profiles)
         THEN WinCandidates[
                  CHOOSE i \in 1..Len(WinCandidates) :
                      /\ browser_profile_exists(WinCandidates[i], profiles)
                      /\ \A j \in 1..(i - 1) :
                             ~browser_profile_exists(WinCandidates[j], profiles)]
         ELSE None
    ELSE "firefox"

Qualities == {"best", "1080", "720", "480", "360"}

\* build_format without the alternative that keeps the height limit and
\* drops the container preference
build_format_two_alternatives(q, audio_only) ==
    IF audio_only THEN << <<"ba">>, <<"b">> >>
    ELSE IF q = "best"
    THEN << <<"bv*", "[ext=mp4]", "+", "ba", "[ext=m4a]">>,
            <<"bv*", "+", "ba">>,
            <<"b">> >>
    ELSE << <<"bv*", "[height<=", q, "]", "[ext=mp4]", "+", "ba", "[ext=m4a]">>,
            <<"b">> >>

\* a format expression is the sequence of its "/"-separated alternatives;
\* an alternative is the sequence of its selector tokens
build_format(q, audio_only) ==
    IF audio_only THEN << <<"ba">>, <<"b">> >>
    ELSE IF q = "best"
    THEN << <<"bv*", "[ext=mp4]", "+", "ba", "[ext=m4a]">>,
            <<"bv*", "+", "ba">>,
            <<"b">> >>
    ELSE << <<"bv*", "[height<=", q, "]", "[ext=mp4]", "+", "ba", "[ext=m4a]">>,
            <<"bv*", "[height<=", q, "]", "+", "ba">>,
            <<"b">> >>

\* ------------------------------------------------------------------------
\* Signals of DownloadWorker and the messages they carry
\* ------------------------------------------------------------------------

\* a log line: the template of the line (kind) and what is substituted
Msg(kind, arg, idx, total, url) ==
    [kind |-> kind, arg |-> arg, idx |-> idx, total |-> total, url |-> url]

PlainMsg(kind) == Msg(kind, "", 0, 0, <<>>)

NoMsg == PlainMsg("")

\* one queued slot invocation / one emitted signal
LogEv(m) ==
    [sig |-> "log", msg |-> m, pct |-> 0, info |-> <<>>, ok |-> FALSE]

ProgressEv(pct, info) ==
    [sig |-> "progress", msg |-> NoMsg, pct |-> pct, info |-> info, ok |-> FALSE]

FinishedEv(ok) ==
    [sig |-> "finished", msg |-> NoMsg, pct |-> 0, info |-> <<>>, ok |-> ok]

\* internal Qt events of the thread hand-over
QuitEv == [sig |-> "quit", msg |-> NoMsg, pct |-> 0, info |-> <<>>, ok |-> FALSE]

CleanupEv ==
    [sig |-> "cleanup", msg |-> NoMsg, pct |-> 0, info |-> <<>>, ok |-> FALSE]

\* _YTDLPLogger: the signals one logger call emits
YTDLPLogger(level, msg) ==
    IF msg = "" THEN <<>>
    ELSE IF level = "debug" THEN <<LogEv(Msg("ytdlp", msg, 0, 0, <<>>))>>
    ELSE IF level = "info" THEN <<LogEv(Msg("ytdlp", msg, 0, 0, <<>>))>>
    ELSE IF level = "warning" THEN <<LogEv(Msg("ytdlp_warning", msg, 0, 0, <<>>))>>
    ELSE <<LogEv(Msg("ytdlp_error", msg, 0, 0, <<>>))>>

\* Python's a or b for numbers
OrNum(a, b) == IF a # 0 THEN a ELSE b

\* the percentage without max(0, min(100, ...))
Percent_unclamped(downloaded, total) ==
    LET num == IF total < 0 THEN 0 - downloaded * 100 ELSE downloaded * 100
        den == IF total < 0 THEN 0 - total ELSE total
    IN  IF num < 0 THEN 0 - ((0 - num) \div den) ELSE num \div den

\* int(max(0, min(100, (downloaded * 100) / total))), total # 0
Percent(downloaded, total) ==
    LET num == IF total < 0 THEN 0 - downloaded * 100 ELSE downloaded * 100
        den == IF total < 0 THEN 0 - total ELSE total
    IN  IF num <= 0 THEN 0
        ELSE IF num >= 100 * den THEN 100
        ELSE num \div den

\* " <bullet> ".join(x for x in [speed, f"ETA {eta}".strip()] if x)
HookInfo(speed, eta) ==
    LET etaPart == IF eta = "" THEN <<"ETA">> ELSE <<"ETA ", eta>>
    IN  IF speed = "" THEN etaPart ELSE <<speed, " <bullet> ">> \o etaPart

\* DownloadWorker._hook: the signals one progress callback emits
hook(d) ==
    IF d.status = "downloading"
    THEN LET total == OrNum(d.total_bytes, OrNum(d.total_bytes_estimate, 0))
             downloaded == OrNum(d.downloaded_bytes, 0)
             pct == IF total # 0 THEN Percent(downloaded, total) ELSE 0
         IN  <<ProgressEv(pct, HookInfo(d.speed_str, d.eta_str))>>
    ELSE IF d.status = "finished"
    THEN <<ProgressEv(100, <<"Fertig (Postprocessing)">>)>>
    ELSE <<>>

\* _make_opts with the with_cookies test inverted
cookies_opt_inverted(w, with_cookies) ==
    IF ~with_cookies /\ w.cookie_browser # None THEN w.cookie_browser ELSE None

\* lines 354-355 of _make_opts: the cookie source of an engine session
cookies_opt(w, with_cookies) ==
    IF with_cookies /\ w.cookie_browser # None THEN w.cookie_browser ELSE None

\* _make_opts naming the files by title only
make_opts_other_template(w, with_cookies) ==
    [format |-> build_format(w.q, w.audio_only),
     outtmpl |-> [dir |-> w.outdir, name |-> "%(title)s.%(ext)s"],
     noplaylist |-> ~w.allow_playlist,
     retries |-> 15,
     fragment_retries |-> 15,
     concurrent_fragment_downloads |-> 1,
     quiet |-> TRUE,
     no_warnings |-> TRUE,
     merge_output_format |-> IF ~w.audio_only THEN "mp4" ELSE None,
     postprocessors |->
         IF w.audio_only
         THEN <<[key |-> "FFmpegExtractAudio", preferredcodec |-> "mp3"]>>
         ELSE <<>>,
     cookiesfrombrowser |-> cookies_opt(w, with_cookies)]

\* DownloadWorker._make_opts; w is the worker, absent keys are None
make_opts(w, with_cookies) ==
    [format |-> build_format(w.q, w.audio_only),
     outtmpl |-> [dir |-> w.outdir, name |-> "%(title).200B [%(id)s].%(ext)s"],
     noplaylist |-> ~w.allow_playlist,
     retries |-> 15,
     fragment_retries |-> 15,
     concurrent_fragment_downloads |-> 1,
     quiet |-> TRUE,
     no_warnings |-> TRUE,
     merge_output_format |-> IF ~w.audio_only THEN "mp4" ELSE None,
     postprocessors |->
         IF w.audio_only
         THEN <<[key |-> "FFmpegExtractAudio", preferredcodec |-> "mp3"]>>
         ELSE <<>>,
     cookiesfrombrowser |-> cookies_opt(w, with_cookies)]

\* DownloadWorker.__init__
DownloadWorker(urls, outdir, q, audio_only, allow_playlist, use_cookies, platform, profiles) ==
    [urls |-> urls,
     outdir |-> outdir,
     q |-> q,
     audio_only |-> audio_only,
     allow_playlist |-> allow_playlist,
     use_cookies |-> use_cookies,
     cookie_browser |->
         IF use_cookies THEN pick_cookie_browser(platform, profiles) ELSE None]

\* ------------------------------------------------------------------------
\* Inputs
\* ------------------------------------------------------------------------

UrlWatch ==
    WatchPrefix \o <<"a","b","c","1","2","3">>

UrlShort ==
    HttpsLit \o YoutuBeSlashLit \o <<"a","b","c","1","2","3","X","Y","Z">>

UrlGarbage == <<"g","a","r","b","a","g","e">>

\* texts the user may type or paste into the URL field
UrlInputs == {UrlShort, UrlGarbage}

\* texts the user may put into the output directory field
OutdirInputs == {<<>>, <<"/","o","u","t">>}

\* white space around a text
PadTexts ==
    { <<>>,
      <<" ">> }

\* how a text may begin
SchemeTexts ==
    { <<>>,
      <<"h","t","t","p",":","/","/">>,
      <<"h","t","t","p","s",":","/","/">>,
      <<"H","t","T","p","S",":","/","/">>,
      <<"f","t","p",":","/","/">>,
      <<"x","h","t","t","p",":","/","/">> }

\* the host of a text
HostTexts ==
    { <<>>,
      <<"w","w","w",".","y","o","u","t","u","b","e",".","c","o","m">>,
      <<"Y","o","u","T","u","b","e",".","c","o","m">>,
      <<"y","o","u","t","u",".","b","e">>,
      <<"Y","O","U","T","U",".","B","E">>,
      <<"e","x","a","m","p","l","e",".","c","o","m">>,
      <<"y","o","u","t","u","x","b","e">> }

\* the rest of a text
PathTexts ==
    { <<>>,
      <<"/","w","a","t","c","h","?","v","=","a","b","c","1","2","3">>,
      <<"/","s","h","o","r","t","s","/","a","b","c","d","e","f">>,
      <<"/","s","h","o","r","t","s","/","a","b","c","d","e">>,
      <<"/","s","h","o","r","t","s","/","a","b","_","-","E","F","1","2","?","x","=","1">>,
      <<"/","a","b","c","1","2","3","X","Y","Z">>,
      <<"/","a","b","c","1","2">>,
      <<"/","a","B","_","-","1","2","?","t","=","1">>,
      <<"/","?","u","=","y","o","u","t","u",".","b","e","/","z","z","z","z","z","z">> }

\* the texts normalize_youtube_url is called with
NormalizeInputs ==
    { a \o b \o c \o d \o e :
          a \in PadTexts, b \in SchemeTexts, c \in HostTexts,
          d \in PathTexts, e \in PadTexts }

\* contents (lines) of the batch files the user may choose
FileExample == << <<"#"," ","c">>, <<>>, UrlShort, UrlGarbage >>

FileTwoUrls == << UrlWatch, UrlShort >>

FileGarbage == << UrlGarbage >>

\* the lines a batch file may have
BatchLines ==
    { <<>>, <<" ">>, <<"#"," ","c">>, <<" ","#">> \o UrlShort,
      UrlShort, <<" ">> \o UrlWatch \o <<" ">>, UrlGarbage }

\* the batch files of up to MaxLines lines
BatchFiles ==
    UNION { [1..n -> BatchLines] : n \in 0..MaxLines }

\* what one engine call (open the session, download one URL, close the
\* session) may do: return, raise DownloadError, raise another Exception
EngineOutcomes == {"ok", "DownloadError", "Exception"}

\* the message an exception carries
ExcMessage(outcome) == IF outcome = "DownloadError" THEN "e_dl" ELSE "e_other"

\* the callbacks the engine may make while downloading one URL
HookDict(status, downloaded, total, estimate) ==
    [cb |-> "hook", level |-> "", msg |-> "", status |-> status,
     downloaded_bytes |-> downloaded, total_bytes |-> total,
     total_bytes_estimate |-> estimate, speed_str |-> "", eta_str |-> ""]

LoggerCall(level, msg) ==
    [cb |-> "logger", level |-> level, msg |-> msg, status |-> "",
     downloaded_bytes |-> 0, total_bytes |-> 0,
     total_bytes_estimate |-> 0, speed_str |-> "", eta_str |-> ""]

EngineCallbacks ==
    { HookDict("downloading", 1, 2, 0),
      LoggerCall("warning", "w") }

\* the signals the worker emits for one engine callback
callback_events(c) ==
    IF c.cb = "hook" THEN hook(c) ELSE YTDLPLogger(c.level, c.msg)

\* An environment offers the program its inputs: what the engine does at
\* each call, the batch files and browser profiles of the host, and how
\* many runs the user starts.
\*
\* RunEnv: every engine behaviour, one or two URLs, every host.
RunEnv ==
    [open |-> {"ok", "Exception"},
     download |-> EngineOutcomes,
     exit |-> {"ok", "Exception"},
     callbacks |-> EngineCallbacks,
     files |-> {FileExample, FileTwoUrls, FileGarbage},
     profiles |-> {{}, {"edge", "firefox"}},
     maxRuns |-> 1,
     maxCallbacks |-> MaxCallbacks]

\* UiEnv: several runs of one URL each; the engine fails only in download
UiEnv ==
    [open |-> {"ok"},
     download |-> {"ok", "DownloadError"},
     exit |-> {"ok"},
     callbacks |-> {},
     files |-> {FileExample, FileGarbage},
     profiles |-> {{}},
     maxRuns |-> MaxRuns,
     maxCallbacks |-> MaxCallbacks]

\* the byte counts a progress callback may report; 0 also stands for a
\* missing key or None
DownloadedValues == {0 - 1, 0, 1, 2, 3, 7}

TotalValues == {0 - 2, 0, 2, 3}

EstimateValues == {0, 3, 5}

\* the dicts the engine may pass to the progress hook
HookDicts ==
    { HookDict(st, dl, tot, est) :
          st \in {"downloading", "finished", "error"},
          dl \in DownloadedValues, tot \in TotalValues,
          est \in EstimateValues }

\* the callbacks of EngineCallbacks and those the worker has no event for:
\* a progress callback with another status, a logger call without message
AllEngineCallbacks ==
    EngineCallbacks \cup
        { HookDict("finished", 2, 2, 0),
          HookDict("error", 0, 0, 0),
          LoggerCall("debug", "") }

\* LogEnv: one run of UiEnv
LogEnv == [UiEnv EXCEPT !.maxRuns = 1]

\* CbEnv: a batch of two URLs whose downloads make every kind of callback
CbEnv ==
    [open |-> {"ok"},
     download |-> {"ok", "DownloadError"},
     exit |-> {"ok"},
     callbacks |-> AllEngineCallbacks,
     files |-> {FileTwoUrls},
     profiles |-> {{}},
     maxRuns |-> 1,
     maxCallbacks |-> MaxOrderedCallbacks]

\* ------------------------------------------------------------------------
\* State
\* ------------------------------------------------------------------------

VARIABLES
    \* MainWindow
    thread,         \* MainWindow.thread and the state of its QThread
    worker,         \* MainWindow.worker: <<>> (None) or <<the DownloadWorker>>
    url_edit, outdir_edit, q_combo, audio_chk, playlist_chk, cookies_chk,
    btn_enabled,    \* btn_start, btn_start_batch, btn_outdir, btn_clipboard, btn_clear
    status_badge,
    progress, progress_info,
    log_buffer,     \* MainWindow._log_buffer
    log_text,       \* the lines shown in MainWindow.log, in order
    mainQueue,      \* queued slot invocations of the main thread, FIFO
    \* the worker thread executing DownloadWorker.run
    pc, attempt, with_cookies, idx, cb, ok,
    \* history of the current run
    attempts,       \* one record per _run_all call
    emitted,        \* the signals the worker emitted, in order
    mkdir_failed,   \* Path(outdir).mkdir raised in this run
    \* history of the behaviour
    runs,           \* DownloadWorker objects created
    liveThreads,    \* QThreads started and not yet finished
    last_start,     \* what the last start request did
    \* the host
    ffmpeg_available,   \* is_ffmpeg_available(): ffmpeg is on the PATH
    \* the last call of a helper function made on its own: its name, its
    \* arguments and its result
    probe

uiVars ==
    <<thread, worker, url_edit, outdir_edit, q_combo, audio_chk, playlist_chk,
      cookies_chk, btn_enabled, status_badge, progress, progress_info,
      log_buffer, log_text, ffmpeg_available, probe>>

\* what the user and the host set: the form and the installed programs
widgetVars ==
    <<url_edit, outdir_edit, q_combo, audio_chk, playlist_chk, cookies_chk,
      ffmpeg_available, probe>>

workerVars == <<pc, attempt, with_cookies, idx, cb, ok>>

historyVars == <<attempts, emitted, mkdir_failed>>

vars ==
    <<uiVars, mainQueue, workerVars, historyVars, runs, liveThreads, last_start>>

\* a call of the function fn with the arguments in that returned out
Probe(fn, in, out) == [fn |-> fn, in |-> in, out |-> out]

NoProbe == Probe("none", <<>>, <<>>)

HintMsg == PlainMsg("Hinweis: ffmpeg wird benoetigt")

\* MainWindow.__init__
Init ==
    /\ thread = None
    /\ worker = <<>>
    /\ url_edit = <<>>
    /\ outdir_edit = <<"/","o","u","t">>
    /\ q_combo = "best"
    /\ audio_chk = FALSE
    /\ playlist_chk = FALSE
    /\ cookies_chk = FALSE
    /\ btn_enabled = TRUE
    /\ status_badge = "Bereit"
    /\ progress = 0
    /\ progress_info = <<>>
    /\ log_buffer = <<HintMsg>>
    /\ log_text = <<>>
    /\ mainQueue = <<>>
    /\ pc = "idle"
    /\ attempt = 0
    /\ with_cookies = FALSE
    /\ idx = 0
    /\ cb = 0
    /\ ok = FALSE
    /\ attempts = <<>>
    /\ emitted = <<>>
    /\ mkdir_failed = FALSE
    /\ runs = 0
    /\ liveThreads = 0
    /\ last_start = "none"
    /\ ffmpeg_available \in BOOLEAN
    /\ probe = NoProbe

\* ------------------------------------------------------------------------
\* DownloadWorker.run, executed on the worker thread
\* ------------------------------------------------------------------------

W == worker[1]

\* the slots connected to a signal of the worker (_start_worker): finished
\* is connected to _on_finished and then to thread.quit
Slots(ev) == IF ev.sig = "finished" THEN <<ev, QuitEv>> ELSE <<ev>>

RECURSIVE SlotsOf(_)
SlotsOf(evs) ==
    IF evs = <<>> THEN <<>> ELSE Slots(Head(evs)) \o SlotsOf(Tail(evs))

\* signal.emit for each of evs, in order
Emit(evs) ==
    /\ emitted' = emitted \o evs
    /\ mainQueue' = mainQueue \o SlotsOf(evs)

\* run's except clause with the two emits in the wrong order
run_except_swapped(e) ==
    <<FinishedEv(FALSE), LogEv(Msg("Unerwarteter Fehler", e, 0, 0, <<>>))>>

\* run's except clause reporting success
run_except_success(e) ==
    <<LogEv(Msg("Unerwarteter Fehler", e, 0, 0, <<>>)), FinishedEv(TRUE)>>

\* the except clause of run
run_except(e) ==
    <<LogEv(Msg("Unerwarteter Fehler", e, 0, 0, <<>>)), FinishedEv(FALSE)>>

\* _run_all without its second except clause
run_all_except_only_download_error(exc) ==
    IF exc = "DownloadError"
    THEN [caught |-> TRUE,
          event |-> LogEv(Msg("DownloadError", ExcMessage(exc), 0, 0, <<>>))]
    ELSE [caught |-> FALSE,
          event |-> LogEv(Msg("Fehler", ExcMessage(exc), 0, 0, <<>>))]

\* the except clauses of _run_all: is the exception caught, and the line logged
run_all_except(exc) ==
    IF exc = "DownloadError"
    THEN [caught |-> TRUE,
          event |-> LogEv(Msg("DownloadError", ExcMessage(exc), 0, 0, <<>>))]
    ELSE [caught |-> TRUE,
          event |-> LogEv(Msg("Fehler", ExcMessage(exc), 0, 0, <<>>))]

\* run retrying after every failed first attempt
retry_wanted_always(use_cookies, ok1) == ~ok1

\* run, lines 364-368: is a second attempt made after the first returned ok1
retry_wanted(use_cookies, ok1) == ~ok1 /\ use_cookies

\* run retrying with cookies again
retry_with_cookies_again == TRUE

\* run, line 370: the with_cookies argument of the second _run_all call
retry_with_cookies == FALSE

\* run reporting the first attempt's result after the retry
finished_after_retry_first_result(ok2) == <<FinishedEv(FALSE)>>

\* run, line 371: the signal emitted after the second attempt returned ok2
finished_after_retry(ok2) == <<FinishedEv(ok2)>>

\* run, lines 365 and 374: the signal emitted when no second attempt is made
finished_after_first(ok1) == <<FinishedEv(ok1)>>

NoCookiesMsg == PlainMsg("Cookies aktiviert, aber kein Browser-Profil gefunden")

RetryMsg == PlainMsg("Fehlgeschlagen mit Cookies -> Retry ohne Cookies")

\* the record of one _run_all call: its with_cookies argument, the cookie
\* source and the options of its engine session, the URLs (by index)
\* ydl.download was called for, the exceptions the engine raised, and the
\* callbacks the engine made (each with the index of the URL downloaded)
NewAttempt(wc, opts) ==
    [with_cookies |-> wc, cookie |-> opts.cookiesfrombrowser, opts |-> opts,
     invoked |-> <<>>, errors |-> <<>>, calls |-> <<>>]

\* _run_all catching the exception of ydl.download inside the loop and
\* going on with the loop
Raise_inside_loop(exc) ==
    LET h == run_all_except(exc)
    IN  /\ attempts' = [attempts EXCEPT
                           ![Len(attempts)].errors = Append(@, exc)]
        /\ Emit(<<h.event>>)
        /\ ok' = FALSE
        /\ pc' = IF pc = "download" THEN "url" ELSE "ret"

\* an exception raised inside the try block of _run_all
Raise(exc) ==
    LET h == run_all_except(exc)
    IN  /\ attempts' = [attempts EXCEPT
                           ![Len(attempts)].errors = Append(@, exc)]
        /\ IF h.caught
           THEN /\ Emit(<<h.event>>)
                /\ ok' = FALSE
                /\ pc' = "ret"
           ELSE \* it reaches the except clause of run
                /\ Emit(run_except(ExcMessage(exc)))
                /\ pc' = "done"
                /\ UNCHANGED ok

\* run: create the output directory, then call _run_all(self.use_cookies)
run_begin ==
    /\ pc = "run"
    /\ \E mk \in BOOLEAN :
          IF mk
          THEN /\ pc' = "run_all"
               /\ attempt' = 1
               /\ with_cookies' = W.use_cookies
               /\ UNCHANGED <<mainQueue, historyVars>>
          ELSE /\ pc' = "done"
               /\ mkdir_failed' = TRUE
               /\ Emit(run_except("e_mkdir"))
               /\ UNCHANGED <<attempt, with_cookies, attempts>>
    /\ UNCHANGED <<uiVars, idx, cb, ok, runs, liveThreads, last_start>>

\* _run_all resuming at the URL the previous attempt failed on
loop_start_resume(prev) ==
    IF prev = <<>> \/ prev[Len(prev)].invoked = <<>> THEN 1
    ELSE Len(prev[Len(prev)].invoked)

\* _run_all, line 391: enumerate(self.urls, start=1) begins at the first
\* URL of the request, whatever the attempts before (prev) did
loop_start(prev) == 1

\* _make_opts reading the output directory from the form, not from the
\* worker's copy
attempt_opts_from_form(wc) ==
    make_opts([W EXCEPT !.outdir = Strip(outdir_edit)], wc)

\* _run_all, line 387: the options are built from the worker's own fields
attempt_opts(wc) == make_opts(W, wc)

\* _run_all up to the opening of the engine session
run_all_enter(E) ==
    /\ pc = "run_all"
    /\ LET noBrowser == with_cookies /\ W.cookie_browser = None
           wc == IF noBrowser THEN FALSE ELSE with_cookies
           opts == attempt_opts(wc)
           warn == IF noBrowser THEN <<LogEv(NoCookiesMsg)>> ELSE <<>>
           att == NewAttempt(with_cookies, opts)
       IN  \E open \in E.open :
              IF open = "ok"
              THEN /\ attempts' = Append(attempts, att)
                   /\ Emit(warn)
                   /\ idx' = loop_start(attempts)
                   /\ pc' = IF Len(W.urls) = 0 THEN "exit" ELSE "url"
                   /\ UNCHANGED ok
              ELSE LET h == run_all_except(open)
                   IN  /\ attempts' =
                              Append(attempts, [att EXCEPT !.errors = <<open>>])
                       /\ idx' = 0
                       /\ IF h.caught
                          THEN /\ Emit(warn \o <<h.event>>)
                               /\ ok' = FALSE
                               /\ pc' = "ret"
                          ELSE /\ Emit(warn \o run_except(ExcMessage(open)))
                               /\ pc' = "done"
                               /\ UNCHANGED ok
    /\ UNCHANGED <<uiVars, attempt, with_cookies, cb, mkdir_failed,
                   runs, liveThreads, last_start>>

\* the loop body logging the URL before it resets the progress bar
url_head_header_first(i, total, url) ==
    <<LogEv(Msg("url_header", "", i, total, url)), ProgressEv(0, <<>>)>>

\* _run_all, lines 392-393: the signals emitted before ydl.download
url_head(i, total, url) ==
    <<ProgressEv(0, <<>>), LogEv(Msg("url_header", "", i, total, url))>>

\* the head of the for loop: progress reset, header line, call ydl.download
url_start ==
    /\ pc = "url"
    /\ Emit(url_head(idx, Len(W.urls), W.urls[idx]))
    /\ attempts' = [attempts EXCEPT
                       ![Len(attempts)].invoked = Append(@, idx)]
    /\ pc' = "download"
    /\ UNCHANGED <<uiVars, attempt, with_cookies, idx, cb, ok, mkdir_failed,
                   runs, liveThreads, last_start>>

\* the engine calls the progress hook or the logger during ydl.download
engine_callback(E) ==
    /\ pc = "download"
    /\ cb < E.maxCallbacks
    /\ \E c \in E.callbacks :
          /\ Emit(callback_events(c))
          /\ attempts' = [attempts EXCEPT ![Len(attempts)].calls =
                              Append(@, [idx |-> idx, c |-> c])]
    /\ cb' = cb + 1
    /\ UNCHANGED <<uiVars, pc, attempt, with_cookies, idx, ok,
                   mkdir_failed, runs, liveThreads, last_start>>

\* ydl.download([url]) returns or raises
download_return(E) ==
    /\ pc = "download"
    /\ \E r \in E.download :
          IF r = "ok"
          THEN /\ idx' = idx + 1
               /\ pc' = IF idx = Len(W.urls) THEN "exit" ELSE "url"
               /\ UNCHANGED <<mainQueue, ok, historyVars>>
          ELSE /\ Raise(r)
               /\ UNCHANGED <<idx, mkdir_failed>>
    /\ UNCHANGED <<uiVars, attempt, with_cookies, cb, runs, liveThreads,
                   last_start>>

\* the with block is left after the last URL: the session is closed
session_exit(E) ==
    /\ pc = "exit"
    /\ \E r \in E.exit :
          IF r = "ok"
          THEN /\ ok' = TRUE
               /\ pc' = "ret"
               /\ UNCHANGED <<mainQueue, historyVars>>
          ELSE /\ Raise(r)
               /\ UNCHANGED mkdir_failed
    /\ UNCHANGED <<uiVars, attempt, with_cookies, idx, cb, runs, liveThreads,
                   last_start>>

\* run after _run_all returned: finish, or retry once without cookies
run_after ==
    /\ pc = "ret"
    /\ IF attempt = 1 /\ retry_wanted(W.use_cookies, ok)
       THEN /\ Emit(<<LogEv(RetryMsg)>>)
            /\ attempt' = 2
            /\ with_cookies' = retry_with_cookies
            /\ pc' = "run_all"
       ELSE /\ Emit(IF attempt = 1 THEN finished_after_first(ok)
                                   ELSE finished_after_retry(ok))
            /\ pc' = "done"
            /\ UNCHANGED <<attempt, with_cookies>>
    /\ UNCHANGED <<uiVars, idx, cb, ok, attempts, mkdir_failed,
                   runs, liveThreads, last_start>>

\* one step of the worker thread
WorkerStep(E) ==
    \/ run_begin
    \/ run_all_enter(E)
    \/ url_start
    \/ download_return(E)
    \/ session_exit(E)
    \/ run_after

\* ------------------------------------------------------------------------
\* MainWindow, executed on the main thread
\* ------------------------------------------------------------------------

\* MainWindow._set_running
set_running(running) ==
    /\ btn_enabled' = ~running
    /\ status_badge' = IF running THEN "Download laeuft" ELSE "Bereit"

\* _start_worker without its guard
run_active_never(t) == FALSE

\* _start_worker, line 684: a run is already active
run_active(t) == t # None

\* MainWindow._start_worker; platform and profiles are the host's
start_worker(urls, outdir, q, audio_only, allow_playlist, use_cookies, platform, profiles) ==
    IF run_active(thread)
    THEN /\ last_start' = "refused"
         /\ UNCHANGED <<uiVars, mainQueue, workerVars, historyVars, runs,
                        liveThreads>>
    ELSE /\ progress' = 0
         /\ progress_info' = <<>>
         /\ set_running(TRUE)
         /\ thread' = "started"
         /\ worker' = <<DownloadWorker(urls, outdir, q, audio_only,
                                       allow_playlist, use_cookies,
                                       platform, profiles)>>
         /\ pc' = "run"
         /\ attempt' = 0
         /\ with_cookies' = FALSE
         /\ idx' = 0
         /\ cb' = 0
         /\ ok' = FALSE
         /\ attempts' = <<>>
         /\ emitted' = <<>>
         /\ mkdir_failed' = FALSE
         /\ runs' = runs + 1
         /\ liveThreads' = liveThreads + 1
         /\ last_start' = "started"
         /\ UNCHANGED <<widgetVars, log_buffer, log_text, mainQueue>>

\* the message boxes of the start handlers, and the file dialog cancelled
Rejections ==
    {"FFmpeg fehlt", "Bitte Zielordner setzen",
     "Bitte gueltige YouTube-URL eingeben", "file dialog cancelled",
     "Datei konnte nicht gelesen werden", "Keine URLs"}

\* a start request that returns before _start_worker is called, after the
\* message box box (or the cancelled dialog)
StartRejected(box) ==
    /\ last_start' = box
    /\ UNCHANGED <<uiVars, mainQueue, workerVars, historyVars, runs,
                   liveThreads>>

\* _validate_common without the test for ffmpeg
validate_common_without_ffmpeg(ffmpeg, outdir_text) == Strip(outdir_text)

\* MainWindow._validate_common: the output directory, or <<>> for None
validate_common(ffmpeg, outdir_text) ==
    IF ~ffmpeg THEN <<>> ELSE Strip(outdir_text)

\* the message box _validate_common shows when it returns None
validate_common_box(ffmpeg, outdir_text) ==
    IF ~ffmpeg THEN "FFmpeg fehlt" ELSE "Bitte Zielordner setzen"

\* MainWindow.start_single (btn_start clicked)
start_single(E) ==
    /\ btn_enabled
    /\ runs < E.maxRuns
    /\ LET outdir == validate_common(ffmpeg_available, outdir_edit)
           url == normalize_youtube_url(Strip(url_edit))
       IN  IF outdir = <<>>
           THEN StartRejected(validate_common_box(ffmpeg_available, outdir_edit))
           ELSE IF url = <<>>
           THEN StartRejected("Bitte gueltige YouTube-URL eingeben")
           ELSE \E platform \in Platforms, profiles \in E.profiles :
                   start_worker(<<url>>, outdir, q_combo, audio_chk,
                                playlist_chk, cookies_chk, platform, profiles)

\* the loop body appending the line as read instead of its normalized URL
batch_line_as_read(line) ==
    LET ln == Strip(line)
        u == normalize_youtube_url(ln)
    IN  IF ln = <<>> \/ Head(ln) = "#" THEN <<>>
        ELSE IF u # <<>> THEN <<ln>>
        ELSE <<>>

\* start_batch_from_file, lines 652-658: what one line adds to urls
batch_line(line) ==
    LET ln == Strip(line)
        u == normalize_youtube_url(ln)
    IN  IF ln = <<>> \/ Head(ln) = "#" THEN <<>>
        ELSE IF u # <<>> THEN <<u>>
        ELSE <<>>

\* start_batch_from_file, lines 650-658: the URLs of the file's lines
RECURSIVE batch_urls(_)
batch_urls(lines) ==
    IF lines = <<>> THEN <<>>
    ELSE batch_line(Head(lines)) \o batch_urls(Tail(lines))

\* MainWindow.start_batch_from_file (btn_start_batch clicked); chosen is
\* <<>> when the dialog is cancelled, readable tells whether read_text works
start_batch_from_file(E) ==
    /\ btn_enabled
    /\ runs < E.maxRuns
    /\ \E chosen \in {<<>>} \cup {<<f>> : f \in E.files} :
          LET urls == IF chosen = <<>> THEN <<>> ELSE batch_urls(chosen[1])
          IN  \E readable \in BOOLEAN :
                 LET outdir == validate_common(ffmpeg_available, outdir_edit)
                 IN  IF outdir = <<>>
                     THEN StartRejected(
                              validate_common_box(ffmpeg_available, outdir_edit))
                     ELSE IF chosen = <<>>
                     THEN StartRejected("file dialog cancelled")
                     ELSE IF ~readable
                     THEN StartRejected("Datei konnte nicht gelesen werden")
                     ELSE IF urls = <<>>
                     THEN StartRejected("Keine URLs")
                     ELSE \E platform \in Platforms, profiles \in E.profiles :
                             start_worker(urls, outdir, q_combo, audio_chk,
                                          playlist_chk, cookies_chk,
                                          platform, profiles)

\* MainWindow._log
log(msg) == log_buffer' = Append(log_buffer, msg)

\* MainWindow._on_progress
on_progress(percent, info) ==
    /\ progress' = percent
    /\ progress_info' = info

\* _on_finished leaving the window in running mode after a failure
running_after_failure(success) == ~success

\* _on_finished, line 721: the argument of _set_running
running_after_finished(success) == FALSE

\* MainWindow._on_finished
on_finished(success) ==
    /\ log(IF success THEN PlainMsg("Fertig.") ELSE PlainMsg("Fehlgeschlagen."))
    /\ set_running(running_after_finished(success))

\* MainWindow._cleanup_thread
cleanup_thread ==
    /\ worker' = <<>>
    /\ thread' = None

\* the main event loop runs the next queued slot invocation
deliver ==
    /\ mainQueue # <<>>
    /\ mainQueue' = Tail(mainQueue)
    /\ LET ev == Head(mainQueue)
       IN  CASE ev.sig = "log" ->
                  /\ log(ev.msg)
                  /\ UNCHANGED <<thread, worker, widgetVars, btn_enabled,
                                 status_badge, progress, progress_info, log_text>>
             [] ev.sig = "progress" ->
                  /\ on_progress(ev.pct, ev.info)
                  /\ UNCHANGED <<thread, worker, widgetVars, btn_enabled,
                                 status_badge, log_buffer, log_text>>
             [] ev.sig = "finished" ->
                  /\ on_finished(ev.ok)
                  /\ UNCHANGED <<thread, worker, widgetVars, progress,
                                 progress_info, log_text>>
             [] ev.sig = "quit" ->
                  \* QThread.quit: the thread's event loop is told to exit
                  /\ thread' = IF thread = "started" THEN "quitting" ELSE thread
                  /\ UNCHANGED <<worker, widgetVars, btn_enabled, status_badge,
                                 progress, progress_info, log_buffer, log_text>>
             [] ev.sig = "cleanup" ->
                  /\ cleanup_thread
                  /\ UNCHANGED <<widgetVars, btn_enabled, status_badge,
                                 progress, progress_info, log_buffer, log_text>>
    /\ UNCHANGED <<workerVars, historyVars, runs, liveThreads, last_start>>

\* the QThread's event loop exits after run returned: QThread.finished is
\* emitted, which is connected to _cleanup_thread
thread_finished ==
    /\ thread = "quitting"
    /\ pc = "done"
    /\ thread' = "finished"
    /\ liveThreads' = liveThreads - 1
    /\ mainQueue' = Append(mainQueue, CleanupEv)
    /\ UNCHANGED <<worker, widgetVars, btn_enabled, status_badge, progress,
                   progress_info, log_buffer, log_text, workerVars,
                   historyVars, runs, last_start>>

\* _flush_log replacing the text shown by the chunk (setText for append)
flushed_text_replaced(text, buffer) == buffer

\* _flush_log, lines 576-578: the chunk is the buffered lines joined by
\* newlines, and QTextEdit.append adds it below the text shown
flushed_text(text, buffer) == text \o buffer

\* the flush timer stopped when the window leaves running mode
flush_timer_active_while_running == ~btn_enabled

\* __init__, lines 420-423: the flush timer is started with the window and
\* never stopped
flush_timer_active == TRUE

\* MainWindow._flush_log (the 100 ms timer); the text shown is the lines
\* appended so far, separated by newlines
flush_log ==
    /\ flush_timer_active
    /\ log_buffer # <<>>
    /\ log_text' = flushed_text(log_text, log_buffer)
    /\ log_buffer' = <<>>
    /\ UNCHANGED <<thread, worker, widgetVars, btn_enabled, status_badge,
                   progress, progress_info, mainQueue, workerVars,
                   historyVars, runs, liveThreads, last_start>>

runVars ==
    <<thread, worker, btn_enabled, status_badge, progress, progress_info,
      log_buffer, log_text, mainQueue, workerVars, historyVars, runs,
      liveThreads, last_start>>

otherVars == <<runVars, probe>>

\* ffmpeg is installed or removed on the host; the program looks for it
\* only in _validate_common, so changes during a run are not modelled
host_change ==
    /\ thread = None
    /\ ffmpeg_available' = ~ffmpeg_available
    /\ UNCHANGED <<url_edit, outdir_edit, q_combo, audio_chk, playlist_chk,
                   cookies_chk, otherVars>>

\* the user types into the URL field
edit_url ==
    /\ \E txt \in UrlInputs : url_edit' = txt
    /\ UNCHANGED <<outdir_edit, q_combo, audio_chk, playlist_chk, cookies_chk,
                   ffmpeg_available, otherVars>>

\* MainWindow.paste_clipboard (btn_clipboard clicked)
paste_clipboard ==
    /\ btn_enabled
    /\ \E clip \in UrlInputs \cup {<<" ">>} :
          LET txt == Strip(clip)
          IN  url_edit' = IF txt # <<>> THEN txt ELSE url_edit
    /\ UNCHANGED <<outdir_edit, q_combo, audio_chk, playlist_chk, cookies_chk,
                   ffmpeg_available, otherVars>>

\* btn_clear clicked
clear_url ==
    /\ btn_enabled
    /\ url_edit' = <<>>
    /\ UNCHANGED <<outdir_edit, q_combo, audio_chk, playlist_chk, cookies_chk,
                   ffmpeg_available, otherVars>>

\* the user types into the output directory field
edit_outdir ==
    /\ \E txt \in OutdirInputs : outdir_edit' = txt
    /\ UNCHANGED <<url_edit, q_combo, audio_chk, playlist_chk, cookies_chk,
                   ffmpeg_available, otherVars>>

\* the user changes the options
toggle_cookies ==
    /\ cookies_chk' = ~cookies_chk
    /\ UNCHANGED <<url_edit, outdir_edit, q_combo, audio_chk, playlist_chk,
                   ffmpeg_available, otherVars>>

\* ------------------------------------------------------------------------
\* The helper functions called on their own
\* ------------------------------------------------------------------------

\* the variables of the window, its run and the host
programVars ==
    <<url_edit, outdir_edit, q_combo, audio_chk, playlist_chk, cookies_chk,
      ffmpeg_available, runVars>>

\* pick_cookie_browser() on a host of any platform with any set of
\* browser profile directories
call_pick_cookie_browser ==
    /\ probe = NoProbe
    /\ \E platform \in Platforms, profiles \in SUBSET Browsers :
          probe' = Probe("pick_cookie_browser",
                         [platform |-> platform, profiles |-> profiles],
                         pick_cookie_browser(platform, profiles))
    /\ UNCHANGED programVars

\* normalize_youtube_url(raw)
call_normalize_youtube_url ==
    /\ probe = NoProbe
    /\ \E raw \in NormalizeInputs :
          probe' = Probe("normalize_youtube_url", raw,
                         normalize_youtube_url(raw))
    /\ UNCHANGED programVars

\* build_format(q, audio_only)
call_build_format ==
    /\ probe = NoProbe
    /\ \E q \in Qualities, audio_only \in BOOLEAN :
          probe' = Probe("build_format", [q |-> q, audio_only |-> audio_only],
                         build_format(q, audio_only))
    /\ UNCHANGED programVars

\* the URL list start_batch_from_file builds from the lines of a file
call_batch_urls ==
    /\ probe = NoProbe
    /\ \E lines \in BatchFiles :
          probe' = Probe("batch_urls", lines, batch_urls(lines))
    /\ UNCHANGED programVars

\* DownloadWorker._hook(d)
call_hook ==
    /\ probe = NoProbe
    /\ \E d \in HookDicts : probe' = Probe("_hook", d, hook(d))
    /\ UNCHANGED programVars

UserEdit ==
    \/ edit_url
    \/ paste_clipboard
    \/ clear_url
    \/ edit_outdir
    \/ toggle_cookies

\* ------------------------------------------------------------------------
\* Specifications
\* ------------------------------------------------------------------------

\* The window and its runs: the user edits and starts at any time, the
\* timer flushes the log, the engine is the one of UiEnv.
Next ==
    \/ start_single(UiEnv)
    \/ start_batch_from_file(UiEnv)
    \/ UserEdit
    \/ host_change
    \/ deliver
    \/ thread_finished
    \/ flush_log
    \/ WorkerStep(UiEnv)

Spec == Init /\ [][Next]_vars

\* One run in full: the user fills the form and starts a run, the engine
\* is the one of RunEnv.
RunNext ==
    \/ start_single(RunEnv)
    \/ start_batch_from_file(RunEnv)
    \/ (thread = None /\ runs = 0 /\ (edit_url \/ toggle_cookies))
    \/ deliver
    \/ thread_finished
    \/ WorkerStep(RunEnv)
    \/ engine_callback(RunEnv)

RunSpec == Init /\ [][RunNext]_vars

\* The fairness the scheduling gives: the worker thread keeps running (each
\* engine call returns or raises), the main event loop keeps delivering
\* queued slot invocations, and a thread told to quit finishes.
FairRunSpec ==
    /\ RunSpec
    /\ WF_vars(WorkerStep(RunEnv))
    /\ WF_vars(deliver)
    /\ WF_vars(thread_finished)

\* One run of the window with its log: the user fills the form and starts a
\* run, the timer flushes the log.
LogNext ==
    \/ start_single(LogEnv)
    \/ start_batch_from_file(LogEnv)
    \/ (thread = None /\ runs = 0 /\ (edit_url \/ toggle_cookies))
    \/ deliver
    \/ thread_finished
    \/ flush_log
    \/ WorkerStep(LogEnv)

LogSpec == Init /\ [][LogNext]_vars

\* LogSpec with the fairness of FairRunSpec and a flush timer that keeps
\* firing
FairLogSpec ==
    /\ LogSpec
    /\ WF_vars(WorkerStep(LogEnv))
    /\ WF_vars(deliver)
    /\ WF_vars(thread_finished)
    /\ WF_vars(flush_log)

\* The helper functions, each called with every argument of its input set.
HelperNext ==
    \/ call_pick_cookie_browser
    \/ call_normalize_youtube_url
    \/ call_build_format
    \/ call_batch_urls
    \/ call_hook

HelperSpec == Init /\ [][HelperNext]_vars

\* One batch run whose engine makes callbacks of every kind.
CbNext ==
    \/ start_batch_from_file(CbEnv)
    \/ (thread = None /\ runs = 0 /\ toggle_cookies)
    \/ deliver
    \/ thread_finished
    \/ WorkerStep(CbEnv)
    \/ engine_callback(CbEnv)

CbSpec == Init /\ [][CbNext]_vars

\* ------------------------------------------------------------------------
\* Properties
\* ------------------------------------------------------------------------

HasRun == worker # <<>>

Done == pc = "done"

Last(s) == s[Len(s)]

IsFinished(e) == e.sig = "finished"

FinishedCount == Len(SelectSeq(emitted, IsFinished))

\* the attempt called the engine for every URL of the request, in order
InvokedAll(a) == a.invoked = [i \in 1..Len(W.urls) |-> i]

AttemptFailed(a) == a.errors # <<>>

CookiesResolved == HasRun /\ W.use_cookies /\ W.cookie_browser # None

\* C1: with cookies requested and a browser resolved, a run whose first
\* batch attempt fails makes exactly two batch attempts, the first with the
\* cookie source and the second without, and never a third.
C1_TwoAttemptsAfterCookieFailure ==
    (CookiesResolved /\ attempts # <<>> /\ AttemptFailed(attempts[1])) =>
        /\ Len(attempts) <= 2
        /\ attempts[1].cookie = W.cookie_browser
        /\ Len(attempts) = 2 => attempts[2].cookie = None
        /\ Done => Len(attempts) = 2

C1_Witness ==
    /\ CookiesResolved
    /\ Done
    /\ Len(attempts) = 2
    /\ AttemptFailed(attempts[1])
    /\ AttemptFailed(attempts[2])

\* C2: with cookies requested but no browser resolved, a run whose first
\* batch attempt fails makes no second batch attempt.
C2_NoRetryWithoutBrowser ==
    (HasRun /\ W.use_cookies /\ W.cookie_browser = None) =>
        Len(attempts) <= 1

\* C3: with cookies not requested, a run whose first batch attempt fails
\* makes exactly one batch attempt and reports Completed with success false.
C3_NoRetryWithoutCookies ==
    (HasRun /\ ~W.use_cookies) =>
        /\ Len(attempts) <= 1
        /\ (Done /\ attempts # <<>> /\ AttemptFailed(attempts[1])) =>
               /\ FinishedCount = 1
               /\ Last(emitted) = FinishedEv(FALSE)

C3_Witness ==
    /\ HasRun
    /\ ~W.use_cookies
    /\ Done
    /\ Len(attempts) = 1
    /\ AttemptFailed(attempts[1])

\* C4: on every path of run the worker emits finished exactly once, and no
\* log or progress signal after it.
C4_FinishedOnceAndLast ==
    /\ FinishedCount <= 1
    /\ FinishedCount = 1 => IsFinished(Last(emitted))
    /\ Done <=> FinishedCount = 1

C4_Witness ==
    /\ Done
    /\ mkdir_failed
    /\ FinishedCount = 1
    /\ Len(emitted) > 1

\* C5: the success flag of finished is true exactly if the last batch
\* attempt of the run called the engine for every URL and the engine raised
\* no error in it; a successful first attempt is not followed by a second.
C5_SuccessIffLastAttemptClean ==
    /\ Len(attempts) >= 2 => AttemptFailed(attempts[1])
    /\ (HasRun /\ Done) =>
           (Last(emitted).ok <=>
                /\ attempts # <<>>
                /\ InvokedAll(Last(attempts))
                /\ ~AttemptFailed(Last(attempts)))

C5_Witness ==
    /\ HasRun
    /\ Done
    /\ Len(W.urls) = 2
    /\ Len(attempts) = 2
    /\ Last(emitted) = FinishedEv(TRUE)

\* C6: at most one run is active; while MainWindow.thread is set, no step
\* (in particular no start request) creates a worker or thread, restarts
\* run, or replaces the worker of the active run.
C6_SingleActiveRun ==
    /\ [](liveThreads <= 1)
    /\ [][thread # None =>
              /\ runs' = runs
              /\ liveThreads' <= liveThreads
              /\ worker' = worker \/ (worker' = <<>> /\ thread' = None)
              /\ pc' = "run" => pc = "run"]_vars

C6_Witness ==
    /\ last_start = "refused"
    /\ thread # None
    /\ liveThreads = 1
    /\ runs = 1

\* C7: a window in running mode is eventually back in ready mode (start
\* controls enabled, status Bereit), whatever the run's outcome.
C7_RunningLeadsToReady ==
    (~btn_enabled) ~> (btn_enabled /\ status_badge = "Bereit")

C7_Witness ==
    /\ runs = 1
    /\ mkdir_failed
    /\ btn_enabled
    /\ status_badge = "Bereit"

\* C8: when creating the output directory fails, the run ends at once: no
\* batch attempt and no engine call, one error line, then finished(False),
\* also with cookies requested.
C8_MkdirFailureIsFatal ==
    mkdir_failed =>
        /\ Done
        /\ attempts = <<>>
        /\ Len(emitted) = 2
        /\ emitted[1].sig = "log"
        /\ emitted[1].msg.kind = "Unerwarteter Fehler"
        /\ emitted[2] = FinishedEv(FALSE)

C8_Witness ==
    /\ mkdir_failed
    /\ HasRun
    /\ W.use_cookies
    /\ W.cookie_browser # None

\* C9: an exception other than DownloadError raised in a batch attempt is
\* caught in _run_all like a DownloadError: its message is logged by
\* _run_all, the attempt is over and failed, run retries under the same
\* rule (a failed first attempt with cookies requested) and ends with one
\* finished signal.
C9_OtherExceptionLikeDownloadError ==
    HasRun =>
        \A i \in 1..Len(attempts) :
            (\E k \in 1..Len(attempts[i].errors) :
                 attempts[i].errors[k] = "Exception") =>
                /\ \E k \in 1..Len(emitted) :
                       /\ emitted[k].sig = "log"
                       /\ emitted[k].msg.kind = "Fehler"
                       /\ emitted[k].msg.arg = ExcMessage("Exception")
                /\ \A k \in 1..Len(emitted) :
                       emitted[k].msg.kind # "Unerwarteter Fehler"
                /\ i = Len(attempts) => pc \in {"ret", "run_all", "done"}
                /\ Done =>
                       /\ FinishedCount = 1
                       /\ IF i = 1 /\ W.use_cookies
                          THEN Len(attempts) = 2
                          ELSE /\ i = Len(attempts)
                               /\ Last(emitted) = FinishedEv(FALSE)

C9_Witness ==
    /\ HasRun
    /\ Done
    /\ W.use_cookies
    /\ Len(attempts) = 2
    /\ attempts[1].errors = <<"Exception">>
    /\ attempts[1].invoked = <<>>

\* C10: an engine session has a cookie source only if cookies were requested
\* and a browser was resolved, and after an attempt without a cookie source
\* no later session of the run has one.
C10_CookiesNeverReEnabled ==
    HasRun =>
        /\ \A i \in 1..Len(attempts) :
               attempts[i].cookie # None =>
                   /\ W.use_cookies
                   /\ W.cookie_browser # None
                   /\ attempts[i].cookie = W.cookie_browser
        /\ \A i, j \in 1..Len(attempts) :
               (i < j /\ attempts[i].cookie = None) =>
                   attempts[j].cookie = None

C10_Witness ==
    /\ HasRun
    /\ Done
    /\ Len(attempts) = 2
    /\ attempts[1].cookie # None
    /\ attempts[2].cookie = None

\* the URLs of the request an attempt called the engine for are the first
\* n, in request order
InvokedFromFirst(a) == a.invoked = [k \in 1..Len(a.invoked) |-> k]

\* C11: the second (cookies-off) attempt calls the engine for the URL list
\* from its first URL again, in request order, also for the URLs whose
\* download returned in the first attempt; when it ends without error it
\* has called the engine for every URL.
C11_RetryRestartsFromFirstUrl ==
    (HasRun /\ Len(attempts) = 2) =>
        /\ InvokedFromFirst(attempts[2])
        /\ (pc \in {"exit", "ret", "done"} /\ ~AttemptFailed(attempts[2])) =>
               InvokedAll(attempts[2])
        /\ \A k \in 1..Len(emitted) :
               (emitted[k] = LogEv(RetryMsg) /\ k + 2 <= Len(emitted)
                    /\ emitted[k + 1].sig = "progress") =>
                   /\ emitted[k + 2].msg.kind = "url_header"
                   /\ emitted[k + 2].msg.idx = 1
                   /\ emitted[k + 2].msg.url = W.urls[1]

\* the first URL was downloaded in the first attempt and is downloaded again
C11_Witness ==
    /\ HasRun
    /\ Len(W.urls) = 2
    /\ Len(attempts) = 2
    /\ attempts[1].invoked = <<1, 2>>
    /\ attempts[1].errors = <<"DownloadError">>
    /\ attempts[2].invoked = <<1, 2>>

\* the callbacks among calls that the engine made while downloading URL i
RECURSIVE CallsOf(_, _)
CallsOf(calls, i) ==
    IF calls = <<>> THEN <<>>
    ELSE IF Head(calls).idx = i
    THEN <<Head(calls).c>> \o CallsOf(Tail(calls), i)
    ELSE CallsOf(Tail(calls), i)

\* the callbacks the worker has an event for
HasEvent(c) ==
    \/ c.cb = "logger" /\ c.msg # ""
    \/ c.cb = "hook" /\ c.status \in {"downloading", "finished"}

\* the signal of the event of callback c
SignalOf(c) == IF c.cb = "logger" THEN "log" ELSE "progress"

\* position of the last URL header line in emitted, 0 if there is none
LastHeader ==
    LET hs == {k \in 1..Len(emitted) : emitted[k].msg.kind = "url_header"}
    IN  IF hs = {} THEN 0 ELSE CHOOSE k \in hs : \A j \in hs : j <= k

\* the events emitted since the last URL header line
SinceHeader == SubSeq(emitted, LastHeader + 1, Len(emitted))

\* the callbacks made so far for the URL being downloaded
CurrentCalls == CallsOf(Last(attempts).calls, idx)

\* C12 (as stated): during the download of a URL, the events after the
\* URL's header line are one per callback the engine made for it.
C12_EveryCallbackForwarded ==
    (HasRun /\ pc = "download") =>
        Len(SinceHeader) = Len(CurrentCalls)

\* C12 (amended): for every URL of a batch attempt the worker emits the
\* progress reset (0, empty info), then the header line with the URL, its
\* index and the total, and after them, in the order of the engine's
\* callbacks, one log event per logger call with a non-empty message and
\* one progress event per progress callback with status downloading or
\* finished; the other callbacks produce no event.
C12_UrlEventsInOrder ==
    (HasRun /\ pc = "download") =>
        LET h == LastHeader
            calls == SelectSeq(CurrentCalls, HasEvent)
        IN  /\ h >= 2
            /\ emitted[h - 1] = ProgressEv(0, <<>>)
            /\ emitted[h] =
                   LogEv(Msg("url_header", "", idx, Len(W.urls), W.urls[idx]))
            /\ Len(SinceHeader) = Len(calls)
            /\ \A k \in 1..Len(calls) :
                   /\ SinceHeader[k].sig = SignalOf(calls[k])
                   /\ <<SinceHeader[k]>> = callback_events(calls[k])

\* two callbacks for the second URL, the first of them without an event
C12_Witness ==
    /\ HasRun
    /\ pc = "download"
    /\ idx = 2
    /\ Len(CurrentCalls) = 2
    /\ ~HasEvent(CurrentCalls[1])
    /\ HasEvent(CurrentCalls[2])

\* every line passed to _log so far: those shown, then those buffered
LogLines == log_text \o log_buffer

\* the line _on_finished logs
FinishedLine(success) ==
    IF success THEN PlainMsg("Fertig.") ELSE PlainMsg("Fehlgeschlagen.")

\* the main event loop runs the queued slot invocation of a signal sig
Delivers(sig) ==
    /\ mainQueue # <<>>
    /\ mainQueue' = Tail(mainQueue)
    /\ Head(mainQueue).sig = sig

\* C13: a line passed to _log is appended to the buffer and not shown; the
\* text shown changes only when the flush moves the whole buffer, in
\* order, below the text shown; so the text shown is always a prefix of
\* the lines logged so far, each line once and in the order logged.
C13_BufferedLogInOrder ==
    [][/\ Delivers("log") =>
              /\ log_buffer' = Append(log_buffer, Head(mainQueue).msg)
              /\ log_text' = log_text
       /\ Delivers("finished") =>
              /\ log_buffer' = Append(log_buffer, FinishedLine(Head(mainQueue).ok))
              /\ log_text' = log_text
       /\ log_text' # log_text =>
              /\ log_text' = log_text \o log_buffer
              /\ log_buffer' = <<>>
              /\ mainQueue' = mainQueue
       /\ LogLines' # LogLines =>
              /\ Delivers("log") \/ Delivers("finished")
              /\ Len(LogLines') = Len(LogLines) + 1
              /\ SubSeq(LogLines', 1, Len(LogLines)) = LogLines]_vars

\* lines logged by a run are shown after an earlier flush, more are buffered
C13_Witness ==
    /\ Len(log_text) >= 3
    /\ log_text[1] = HintMsg
    /\ log_text[2].kind = "url_header"
    /\ log_buffer # <<>>

\* a step that creates a worker and starts its thread
StartsRun == runs' = runs + 1

\* a start request that ended with a message box or the cancelled dialog
RejectsStart == last_start' \in Rejections /\ last_start' # last_start

\* C14: a run is started only with ffmpeg present, a non-empty output
\* directory and a non-empty URL list of non-empty normalizer results (the
\* URL field's, or a batch file's accepted lines); a start request that
\* fails one of the checks creates no worker and no thread and leaves the
\* window in ready mode.
C14_RunOnlyAfterValidation ==
    [][/\ StartsRun =>
              /\ ffmpeg_available
              /\ Strip(outdir_edit) # <<>>
              /\ worker'[1].outdir = Strip(outdir_edit)
              /\ worker'[1].urls # <<>>
              /\ \A i \in 1..Len(worker'[1].urls) : worker'[1].urls[i] # <<>>
              /\ \/ worker'[1].urls = <<normalize_youtube_url(Strip(url_edit))>>
                 \/ \E f \in UiEnv.files : worker'[1].urls = batch_urls(f)
       /\ RejectsStart =>
              /\ UNCHANGED <<thread, worker, runs, liveThreads, pc, mainQueue>>
              /\ btn_enabled' /\ status_badge' = "Bereit"
              /\ last_start' = "FFmpeg fehlt" => ~ffmpeg_available
              /\ last_start' = "Bitte Zielordner setzen" =>
                     Strip(outdir_edit) = <<>>
              /\ last_start' = "Bitte gueltige YouTube-URL eingeben" =>
                     normalize_youtube_url(Strip(url_edit)) = <<>>
       /\ (~ffmpeg_available \/ Strip(outdir_edit) = <<>>) =>
              (runs' = runs /\ liveThreads' <= liveThreads)]_vars

\* an invalid URL in the URL field was rejected and nothing was started
C14_Witness ==
    /\ last_start = "Bitte gueltige YouTube-URL eingeben"
    /\ url_edit = UrlGarbage
    /\ worker = <<>>
    /\ thread = None
    /\ btn_enabled
    /\ runs = 0

\* the first browser of the candidates cands whose profile directory
\* exists (is in profiles), None if there is none
FirstExisting(cands, profiles) ==
    LET found == {i \in 1..Len(cands) : cands[i] \in profiles}
    IN  IF found = {} THEN None
        ELSE cands[CHOOSE i \in found : \A j \in found : i <= j]

PickCalled == probe.fn = "pick_cookie_browser"

\* C15 (as stated): on every platform the result is the first candidate
\* whose profile directory exists, and None if no candidate's exists.
C15_FirstExistingOrAbsent ==
    PickCalled =>
        probe.out =
            FirstExisting(IF probe.in.platform = "win"
                          THEN <<"chrome", "edge", "firefox">>
                          ELSE <<"firefox">>,
                          probe.in.profiles)

\* C15 (amended): on Windows pick_cookie_browser returns the first of
\* chrome, edge, firefox whose profile directory exists, and None if none
\* exists; on every other platform it returns firefox without probing.
C15_FirstExistingOnWindows ==
    PickCalled =>
        probe.out =
            IF probe.in.platform = "win"
            THEN FirstExisting(<<"chrome", "edge", "firefox">>,
                               probe.in.profiles)
            ELSE "firefox"

\* Windows with profiles of edge and firefox but not of chrome
C15_Witness ==
    /\ PickCalled
    /\ probe.in = [platform |-> "win", profiles |-> {"edge", "firefox"}]
    /\ probe.out = "edge"

NormalizeCalled == probe.fn = "normalize_youtube_url"

\* the text without the white space around it
Trimmed == Strip(probe.in)

\* the first n characters of s folded to lower case
LowerPrefix(s, n) ==
    [k \in 1..(IF n <= Len(s) THEN n ELSE Len(s)) |-> Lower(s[k])]

StartsWithScheme(s) ==
    \/ LowerPrefix(s, 7) = <<"h","t","t","p",":","/","/">>
    \/ LowerPrefix(s, 8) = <<"h","t","t","p","s",":","/","/">>

\* lit occurs in s at offset i, ignoring case
OccursAt(lit, s, i) ==
    /\ i + Len(lit) - 1 <= Len(s)
    /\ [k \in 1..Len(lit) |-> Lower(s[i + k - 1])] = lit

\* lit occurs in s at some offset, ignoring case
Occurs(lit, s) == \E i \in 1..Len(s) : OccursAt(lit, s, i)

NamesVideoHost(s) ==
    \/ Occurs(<<"y","o","u","t","u","b","e",".","c","o","m">>, s)
    \/ Occurs(<<"y","o","u","t","u",".","b","e">>, s)

\* C16: normalize_youtube_url returns the empty string for every text
\* that, trimmed, is empty, does not begin with http:// or https:// (in any
\* case), or names neither youtube.com nor youtu.be.
C16_RejectsWithoutSchemeOrHost ==
    NormalizeCalled =>
        ((Trimmed = <<>> \/ ~StartsWithScheme(Trimmed)
              \/ ~NamesVideoHost(Trimmed)) =>
            probe.out = <<>>)

\* a video link whose scheme is not at the start of the text
C16_Witness ==
    /\ NormalizeCalled
    /\ Occurs(<<"x","h","t","t","p",":","/","/","y","o","u","t","u",".","b","e">>,
              probe.in)
    /\ probe.out = <<>>

\* the identifiers of s in the form lit<id>: the whole run of URL-safe
\* characters, 6 or more, that follows an occurrence of lit
IdsAfter(lit, s) ==
    LET starts == {i \in 1..Len(s) : OccursAt(lit, s, i)}
        EndsOf(b) == {j \in b..Len(s) :
                         /\ j - b + 1 >= 6
                         /\ \A k \in b..j : s[k] \in IdChars
                         /\ (j = Len(s) \/ s[j + 1] \notin IdChars)}
    IN  UNION { {SubSeq(s, i + Len(lit), j) : j \in EndsOf(i + Len(lit))} :
                    i \in starts }

ShortsIds(s) ==
    IdsAfter(<<"y","o","u","t","u","b","e",".","c","o","m",
               "/","s","h","o","r","t","s","/">>, s)

ShortLinkIds(s) == IdsAfter(<<"y","o","u","t","u",".","b","e","/">>, s)

CanonicalOf(id) ==
    <<"h","t","t","p","s",":","/","/","w","w","w",".",
      "y","o","u","t","u","b","e",".","c","o","m",
      "/","w","a","t","c","h","?","v","=">> \o id

\* C17: for a text that normalize_youtube_url accepts, the result is
\* https://www.youtube.com/watch?v=<id> if the text has the form
\* youtube.com/shorts/<id> or youtu.be/<id> with <id> a run of 6 or more
\* URL-safe characters, and the trimmed text unchanged otherwise.
C17_ShortFormsRewrittenElseUnchanged ==
    (NormalizeCalled /\ probe.out # <<>>) =>
        LET ids == ShortsIds(Trimmed) \cup ShortLinkIds(Trimmed)
        IN  IF ids # {}
            THEN \E id \in ids : probe.out = CanonicalOf(id)
            ELSE probe.out = Trimmed

\* a short link with an identifier longer than 6 characters
C17_Witness ==
    /\ NormalizeCalled
    /\ ShortLinkIds(Trimmed) = {<<"a","b","c","1","2","3","X","Y","Z">>}
    /\ probe.out = CanonicalOf(<<"a","b","c","1","2","3","X","Y","Z">>)
    /\ probe.in # Trimmed

FormatCalled == probe.fn = "build_format"

\* the alternative alt limits the height to q
LimitsHeight(alt, q) ==
    \E k \in 1..(Len(alt) - 2) :
        alt[k] = "[height<=" /\ alt[k + 1] = q /\ alt[k + 2] = "]"

\* the alternative alt has no height limit
NoHeightLimit(alt) == \A k \in 1..Len(alt) : alt[k] # "[height<="

\* the alternative alt prefers a container
PrefersContainer(alt) ==
    \E k \in 1..Len(alt) : alt[k] \in {"[ext=mp4]", "[ext=m4a]"}

\* C18: for every quality and audio_only, build_format returns a non-empty
\* expression; with audio_only it is the best-audio expression whatever
\* the quality; with a height tier it is three alternatives in this order:
\* the height limit with the container preference, the height limit
\* without container restriction, and an unrestricted fallback.
C18_FormatExpression ==
    FormatCalled =>
        LET q == probe.in.q
            expr == probe.out
        IN  /\ expr # <<>>
            /\ \A k \in 1..Len(expr) : expr[k] # <<>>
            /\ probe.in.audio_only => expr = << <<"ba">>, <<"b">> >>
            /\ (~probe.in.audio_only /\ q # "best") =>
                   /\ Len(expr) = 3
                   /\ LimitsHeight(expr[1], q) /\ PrefersContainer(expr[1])
                   /\ LimitsHeight(expr[2], q) /\ ~PrefersContainer(expr[2])
                   /\ NoHeightLimit(expr[3]) /\ ~PrefersContainer(expr[3])

C18_Witness ==
    /\ FormatCalled
    /\ probe.in = [q |-> "720", audio_only |-> FALSE]
    /\ Len(probe.out) = 3

BatchCalled == probe.fn = "batch_urls"

\* the line is not blank and does not start with '#'
IsUrlLine(line) ==
    /\ \E k \in 1..Len(line) : line[k] # " "
    /\ line[1] # "#"

\* the line is passed to the normalizer and accepted by it
IsKept(line) == IsUrlLine(line) /\ normalize_youtube_url(line) # <<>>

\* C19: the URL list of a batch file is, in file order, the normalizer's
\* results for exactly the lines that are not blank, do not start with '#'
\* and are accepted by the normalizer; the other lines add nothing, and a
\* line that occurs twice is kept twice.  The file with the lines
\* "# c", "", a short link and "garbage" yields the one canonical URL.
C19_BatchUrlsInFileOrder ==
    /\ BatchCalled =>
           LET kept == SelectSeq(probe.in, IsKept)
           IN  probe.out =
                   [k \in 1..Len(kept) |-> normalize_youtube_url(kept[k])]
    /\ batch_urls(FileExample) =
           <<CanonicalOf(<<"a","b","c","1","2","3","X","Y","Z">>)>>

\* a comment, a short link and the same short link again
C19_Witness ==
    /\ BatchCalled
    /\ probe.in = << <<"#"," ","c">>, UrlShort, UrlShort >>
    /\ Len(probe.out) = 2
    /\ probe.out[1] = probe.out[2]
    /\ probe.out[1] # UrlShort

\* ------------------------------------------------------------------------
\* The worker of the older variant (src/ytdl_gui_cli_old.py), as a function
\* of the request and of what the engine does
\* ------------------------------------------------------------------------

old_build_format(q, audio_only) ==
    IF audio_only THEN << <<"ba">>, <<"b">> >>
    ELSE IF q = "best"
    THEN << <<"bv*", "[ext=mp4]", "+", "ba", "[ext=m4a]">>,
            <<"bv*", "+", "ba">>,
            <<"b">> >>
    ELSE << <<"bv*", "[height<=", q, "]", "[ext=mp4]", "+", "ba", "[ext=m4a]">>,
            <<"bv*", "[height<=", q, "]", "+", "ba">>,
            <<"b">> >>

\* _YTDLPLogger of the older variant
old_YTDLPLogger(level, msg) ==
    IF level = "debug"
    THEN IF msg # "" THEN <<LogEv(Msg("ytdlp", msg, 0, 0, <<>>))>> ELSE <<>>
    ELSE IF level = "info"
    THEN IF msg # "" THEN <<LogEv(Msg("ytdlp", msg, 0, 0, <<>>))>> ELSE <<>>
    ELSE IF level = "warning"
    THEN IF msg # "" THEN <<LogEv(Msg("ytdlp_warning", msg, 0, 0, <<>>))>>
         ELSE <<>>
    ELSE IF msg # "" THEN <<LogEv(Msg("ytdlp_error", msg, 0, 0, <<>>))>>
         ELSE <<>>

\* DownloadWorker._hook of the older variant
old_hook(d) ==
    IF d.status = "downloading"
    THEN LET total ==
                 IF d.total_bytes # 0 THEN d.total_bytes
                 ELSE IF d.total_bytes_estimate # 0 THEN d.total_bytes_estimate
                 ELSE 0
             downloaded == IF d.downloaded_bytes # 0 THEN d.downloaded_bytes ELSE 0
             pct == IF total # 0 THEN Percent(downloaded, total) ELSE 0
         IN  <<ProgressEv(pct, HookInfo(d.speed_str, d.eta_str))>>
    ELSE IF d.status = "finished"
    THEN <<ProgressEv(100, <<"Fertig (Postprocessing)">>)>>
    ELSE <<>>

\* DownloadWorker._make_opts of the older variant
old_make_opts(w, wc) ==
    LET base ==
            [format |-> old_build_format(w.q, w.audio_only),
             outtmpl |-> [dir |-> w.outdir,
                          name |-> "%(title).200B [%(id)s].%(ext)s"],
             noplaylist |-> ~w.allow_playlist,
             retries |-> 15,
             fragment_retries |-> 15,
             concurrent_fragment_downloads |-> 1,
             quiet |-> TRUE,
             no_warnings |-> TRUE,
             merge_output_format |-> None,
             postprocessors |-> <<>>,
             cookiesfrombrowser |-> None]
        merged == IF ~w.audio_only
                  THEN [base EXCEPT !.merge_output_format = "mp4"]
                  ELSE base
        audio == IF w.audio_only
                 THEN [merged EXCEPT !.postprocessors =
                          <<[key |-> "FFmpegExtractAudio",
                             preferredcodec |-> "mp3"]>>]
                 ELSE merged
    IN  IF wc /\ w.cookie_browser # None
        THEN [audio EXCEPT !.cookiesfrombrowser = w.cookie_browser]
        ELSE audio

\* the signals of the older variant for the engine's callbacks cs, in order
RECURSIVE old_callbacks(_)
old_callbacks(cs) ==
    IF cs = <<>> THEN <<>>
    ELSE (IF Head(cs).cb = "hook" THEN old_hook(Head(cs))
          ELSE old_YTDLPLogger(Head(cs).level, Head(cs).msg))
         \o old_callbacks(Tail(cs))

\* the loop of the older _run_all over the URLs i..n for which the engine
\* was called, with the callbacks calls the engine made
RECURSIVE old_loop(_, _, _, _)
old_loop(w, i, n, calls) ==
    IF i > n THEN <<>>
    ELSE <<ProgressEv(0, <<>>),
           LogEv(Msg("url_header", "", i, Len(w.urls), w.urls[i]))>>
         \o old_callbacks(CallsOf(calls, i))
         \o old_loop(w, i + 1, n, calls)

\* DownloadWorker._run_all of the older variant when the engine behaves as
\* recorded in e (URLs reached, callbacks made, exception raised): the
\* options of the session, the signals emitted and the value returned
old_run_all(w, cookies_wanted, e) ==
    LET noBrowser == cookies_wanted /\ w.cookie_browser = None
        wc == IF noBrowser THEN FALSE ELSE cookies_wanted
        warn == IF noBrowser THEN <<LogEv(NoCookiesMsg)>> ELSE <<>>
        body == old_loop(w, 1, Len(e.invoked), e.calls)
        exc == IF e.errors = <<>> THEN <<>>
               ELSE IF e.errors[1] = "DownloadError"
               THEN <<LogEv(Msg("DownloadError", ExcMessage(e.errors[1]),
                                0, 0, <<>>))>>
               ELSE <<LogEv(Msg("Fehler", ExcMessage(e.errors[1]), 0, 0, <<>>))>>
    IN  [opts |-> old_make_opts(w, wc),
         events |-> warn \o body \o exc,
         ok |-> e.errors = <<>>]

\* DownloadWorker.run of the older variant when mkdir and the engine
\* behave as recorded: the options of its sessions and the signals emitted
old_run(w, mkdir_raised, engine) ==
    IF mkdir_raised
    THEN [opts |-> <<>>,
          events |-> <<LogEv(Msg("Unerwarteter Fehler", "e_mkdir", 0, 0, <<>>)),
                       FinishedEv(FALSE)>>]
    ELSE LET r1 == old_run_all(w, w.use_cookies, engine[1])
         IN  IF r1.ok
             THEN [opts |-> <<r1.opts>>,
                   events |-> r1.events \o <<FinishedEv(TRUE)>>]
             ELSE IF w.use_cookies
             THEN LET r2 == old_run_all(w, FALSE, engine[2])
                  IN  [opts |-> <<r1.opts, r2.opts>>,
                       events |-> r1.events \o <<LogEv(RetryMsg)>>
                                      \o r2.events \o <<FinishedEv(r2.ok)>>]
             ELSE [opts |-> <<r1.opts>>,
                   events |-> r1.events \o <<FinishedEv(FALSE)>>]

C21_RequestImmutableDuringRun ==
    /\ [][(worker # <<>> /\ worker' # <<>>) => worker' = worker]_vars
    /\ [](HasRun =>
             /\ \A i \in 1..Len(attempts) :
                    \E wc \in BOOLEAN : attempts[i].opts = make_opts(W, wc)
             /\ Len(attempts) = 2 =>
                    [attempts[1].opts EXCEPT !.cookiesfrombrowser = None]
                        = attempts[2].opts)

\* the form was edited during a run of two attempts
C21_Witness ==
    /\ HasRun
    /\ Len(attempts) = 2
    /\ attempts[1].cookie # None
    /\ W.outdir # Strip(outdir_edit)
    /\ W.use_cookies # cookies_chk
    /\ W.urls # <<normalize_youtube_url(Strip(url_edit))>>

HookCalled == probe.fn = "_hook"

\* the total the hook divides by: total_bytes, else the estimate, else 0
ReportedTotal(d) ==
    IF d.total_bytes # 0 THEN d.total_bytes ELSE d.total_bytes_estimate

\* C22: every progress signal of the hook carries an integer percent in
\* 0..100, whatever byte counts the engine reports: 0 when the total is
\* missing or zero, 100 when more was downloaded than the (positive)
\* total, 0 when downloaded is negative, else the percentage rounded
\* down; a 'finished' callback gives 100.
C22_PercentInRange ==
    HookCalled =>
        LET d == probe.in
            tot == ReportedTotal(d)
        IN  /\ \A k \in 1..Len(probe.out) :
                   /\ probe.out[k].sig = "progress"
                   /\ probe.out[k].pct \in 0..100
            /\ d.status = "finished" =>
                   (Len(probe.out) = 1 /\ probe.out[1].pct = 100)
            /\ d.status = "downloading" =>
                   /\ Len(probe.out) = 1
                   /\ tot = 0 => probe.out[1].pct = 0
                   /\ (tot > 0 /\ d.downloaded_bytes > tot) =>
                          probe.out[1].pct = 100
                   /\ (tot > 0 /\ d.downloaded_bytes < 0) =>
                          probe.out[1].pct = 0
                   /\ (tot > 0 /\ d.downloaded_bytes \in 0..tot) =>
                          /\ probe.out[1].pct * tot <= d.downloaded_bytes * 100
                          /\ d.downloaded_bytes * 100 < (probe.out[1].pct + 1) * tot

\* more downloaded than the estimated total
C22_Witness ==
    /\ HookCalled
    /\ probe.in.status = "downloading"
    /\ probe.in.total_bytes = 0
    /\ probe.in.total_bytes_estimate = 3
    /\ probe.in.downloaded_bytes = 7
    /\ probe.out[1].pct = 100

\* C23: in one batch attempt (one _run_all call, one engine session with
\* one set of options) ydl.download is called at most once per URL, in
\* request order; once a call has raised, the attempt calls the engine for
\* no further URL, records no second error, and returns False.
C23_OneCallPerUrlStopAtFirstError ==
    /\ [](HasRun =>
             \A i \in 1..Len(attempts) :
                 /\ InvokedFromFirst(attempts[i])
                 /\ Len(attempts[i].invoked) <= Len(W.urls)
                 /\ Len(attempts[i].errors) <= 1
                 /\ (AttemptFailed(attempts[i]) /\ i = Len(attempts)) =>
                        /\ pc \in {"ret", "run_all", "done"}
                        /\ pc = "ret" => ~ok)
    /\ [][runs' = runs =>
              \A i \in 1..Len(attempts) :
                  AttemptFailed(attempts[i]) => attempts'[i] = attempts[i]]_vars

\* the call for the first of two URLs raised; the second was never tried
C23_Witness ==
    /\ HasRun
    /\ Done
    /\ Len(W.urls) = 2
    /\ Len(attempts) = 1
    /\ attempts[1].invoked = <<1>>
    /\ attempts[1].errors = <<"DownloadError">>

\* the line is among the lines of the sequence lines
Shows(lines, line) == \E k \in 1..Len(lines) : lines[k] = line

\* C24: every line passed to _log is eventually shown: whenever lines are
\* buffered, a later flush empties the buffer into the text shown (which
\* keeps its lines); in particular the final line of _on_finished, logged
\* in the step that puts the window back in ready mode, is shown later.
C24_BufferedLinesEventuallyShown ==
    /\ (log_buffer # <<>>) ~> (log_buffer = <<>>)
    /\ \A success \in BOOLEAN :
           Shows(log_buffer, FinishedLine(success))
               ~> (Shows(log_text, FinishedLine(success)) /\ btn_enabled)

\* the run is over, the window is ready and the failure line is shown
C24_Witness ==
    /\ runs = 1
    /\ thread = None
    /\ btn_enabled
    /\ log_buffer = <<>>
    /\ Shows(log_text, FinishedLine(FALSE))
    /\ Shows(log_text, RetryMsg)

\* C25: whenever the window is in ready mode (start controls enabled) the
\* single-run guard is clear (MainWindow.thread is None).
C25_ReadyImpliesGuardClear == btn_enabled => thread = None

\* C25, the consequence: a start request made in ready mode is never
\* dropped by the single-run guard.
C25_ReadyStartNeverIgnored ==
    [][btn_enabled => ~(last_start' = "refused" /\ last_start # "refused")]_vars

====
